---------------------------- MODULE Spec2Model ----------------------------
(***************************************************************************)
(* The CRM mutation layer (crm/schema.py) over the entity model            *)
(* (crm/models.py).  The database holds three tables; every GraphQL        *)
(* mutation is a request that runs in steps, one step per database         *)
(* statement, so that other requests can run between two statements of a   *)
(* request.  Decimal amounts are integers counted in cents.                *)
(***************************************************************************)
EXTENDS Integers, Sequences, FiniteSets, TLC

VARIABLES
    customers,  \* the committed rows of Customer, in id order (id = position)
    products,   \* the committed rows of Product, in id order
    orders,     \* the committed rows of Order with their product links
    tx,         \* per request: the Customer rows of its open transaction
    pc,         \* per request: the statement it is at
    op,         \* per request: the mutation it runs
    input,      \* per request: the mutation's argument
    locals,     \* per request: the local variables of mutate
    result      \* per request: what the mutation returned or raised

vars == <<customers, products, orders, tx, pc, op, input, locals, result>>

\* The requests in flight at one time.
Reqs == {"r1", "r2"}

\* The longest list given to bulkCreateCustomers, and the longest phone text.
MaxBatch == 3
MaxConcurrentBatch == 2
MaxPhoneLen == 4

\* The most products and orders the store is let to hold.
MaxProducts == 2
MaxOrders == 1

\* The longest list of product ids given to createOrder.
MaxProductIds == 2

----------------------------------------------------------------------------
(* Sequences *)

Range(s) == {s[i] : i \in DOMAIN s}

RECURSIVE SeqsUpTo(_, _)
SeqsUpTo(S, n) ==
    IF n = 0 THEN {<<>>}
    ELSE LET shorter == SeqsUpTo(S, n - 1)
         IN  shorter \cup {Append(s, c) : s \in {t \in shorter : Len(t) = n - 1}, c \in S}

----------------------------------------------------------------------------
(* Strings of the phone field: a text is a sequence of characters, and an  *)
(* omitted phone (None) is a record that is not given.                     *)

Digits == {"0", "1", "2", "3", "4", "5", "6", "7", "8", "9"}

NoPhone == [given |-> FALSE, text |-> <<>>]
Phone(t) == [given |-> TRUE, text |-> t]

\* str.startswith("+")
startswith_plus(t) == Len(t) >= 1 /\ t[1] = "+"

\* str.replace("-", "")
replace_hyphens(t) == SelectSeq(t, LAMBDA c : c # "-")

\* str.isdigit(): every character a digit, and at least one character
isdigit(t) == Len(t) >= 1 /\ \A i \in DOMAIN t : t[i] \in Digits

\* Python's truth value of input.phone: None and "" are false
truthy(phone) == phone.given /\ Len(phone.text) >= 1

\* the condition of schema.py lines 86 and 116 under which the phone is refused
PhoneRefused(phone) ==
    truthy(phone) /\ ~(startswith_plus(phone.text) \/ isdigit(replace_hyphens(phone.text)))

----------------------------------------------------------------------------
(* Emails *)

\* django.core.validators.validate_email on the addresses the requests use
validate_email(e) == e \in {"a@x.com", "b@x.com"}

\* a Customer table without the unique index on email
UniqueViolationOff(email) == FALSE

\* Customer.email is unique: an INSERT of an email a committed row holds fails
UniqueViolation(email) == \E i \in DOMAIN customers : customers[i].email = email

\* Customer.objects.filter(email=...).exists() as request r sees the table: the
\* committed rows and the rows of its own open transaction
EmailExists(r, email) ==
    \/ \E i \in DOMAIN customers : customers[i].email = email
    \/ \E i \in DOMAIN tx[r] : tx[r][i].email = email

\* another request's open transaction holds an uncommitted row with this email:
\* the INSERT waits for that transaction to end
HeldByOther(r, email) ==
    \E q \in Reqs \ {r} : \E i \in DOMAIN tx[q] : tx[q][i].email = email

\* r and another request each wait for a row the other's transaction holds: the
\* database ends the wait of one of them with an error
Deadlocked(r, email) ==
    \E q \in Reqs \ {r} :
        /\ \E i \in DOMAIN tx[q] : tx[q][i].email = email
        /\ pc[q] = "bulk_create"
        /\ \E i \in DOMAIN tx[r] : tx[r][i].email = input[q][Len(input[q])].email

----------------------------------------------------------------------------
(* createCustomer *)

\* lines 75-87 with the phone check before the uniqueness check
ValidateCustomerPhoneFirst(r, cust) ==
    IF ~validate_email(cust.email) THEN "Invalid email format"
    ELSE IF PhoneRefused(cust.phone)
    THEN "Invalid phone format. Use +1234567890 or 123-456-7890"
    ELSE IF EmailExists(r, cust.email) THEN "Email already exists"
    ELSE "ok"

\* lines 75-87: the checks of CreateCustomer.mutate, in their order
ValidateCustomer(r, cust) ==
    IF ~validate_email(cust.email) THEN "Invalid email format"
    ELSE IF EmailExists(r, cust.email) THEN "Email already exists"
    ELSE IF PhoneRefused(cust.phone)
    THEN "Invalid phone format. Use +1234567890 or 123-456-7890"
    ELSE "ok"

Idle(r) == pc[r] \in {"idle", "done"}

Raise(r, message) ==
    /\ pc' = [pc EXCEPT ![r] = "done"]
    /\ result' = [result EXCEPT ![r] = [status |-> "error", message |-> message]]

\* lines 74-87: the request arrives and its checks run
CreateCustomerCheck(r, cust) ==
    /\ Idle(r)
    /\ op' = [op EXCEPT ![r] = "createCustomer"]
    /\ input' = [input EXCEPT ![r] = cust]
    /\ locals' = [locals EXCEPT ![r] = [none |-> TRUE]]
    /\ IF ValidateCustomer(r, cust) # "ok"
       THEN Raise(r, ValidateCustomer(r, cust))
       ELSE /\ pc' = [pc EXCEPT ![r] = "cc_create"]
            /\ result' = [result EXCEPT ![r] = [status |-> "none"]]
    /\ UNCHANGED <<customers, products, orders, tx>>

\* lines 90-95: Customer.objects.create succeeds and the mutation returns
CreateCustomerInsert(r) ==
    /\ pc[r] = "cc_create"
    /\ ~UniqueViolation(input[r].email)
    /\ ~HeldByOther(r, input[r].email)
    /\ customers' = Append(customers, input[r])
    /\ pc' = [pc EXCEPT ![r] = "done"]
    /\ result' = [result EXCEPT ![r] =
           [status |-> "ok", customer |-> input[r],
            message |-> "Customer created successfully"]]
    /\ UNCHANGED <<products, orders, tx, op, input, locals>>

\* lines 90-94: Customer.objects.create raises IntegrityError, which mutate
\* does not catch
CreateCustomerInsertFails(r) ==
    /\ pc[r] = "cc_create"
    /\ UniqueViolation(input[r].email)
    /\ Raise(r, "IntegrityError")
    /\ UNCHANGED <<customers, products, orders, tx, op, input, locals>>

----------------------------------------------------------------------------
(* bulkCreateCustomers *)

\* f"Row {idx}: ..." with enumerate(input, start=0)
RowMessageFromZero(idx, text) == "Row " \o ToString(idx - 1) \o ": " \o text

\* the f-strings of lines 114, 117 and 128
RowMessage(idx, text) == "Row " \o ToString(idx) \o ": " \o text

\* lines 112-118 and 127-128: the checks of one row, in their order
ValidateRow(r, cust) ==
    IF ~validate_email(cust.email) THEN "Invalid email format"
    ELSE IF EmailExists(r, cust.email) THEN "Email already exists"
    ELSE IF PhoneRefused(cust.phone) THEN "Invalid phone format"
    ELSE "ok"

\* lines 105-109: the lists are emptied and the transaction opens
BulkBegin(r) ==
    /\ Idle(r)
    /\ op' = [op EXCEPT ![r] = "bulkCreateCustomers"]
    /\ input' = [input EXCEPT ![r] = <<>>]
    /\ locals' = [locals EXCEPT ![r] = [created_customers |-> <<>>, errors |-> <<>>]]
    /\ tx' = [tx EXCEPT ![r] = <<>>]
    /\ pc' = [pc EXCEPT ![r] = "bulk_loop"]
    /\ result' = [result EXCEPT ![r] = [status |-> "none"]]
    /\ UNCHANGED <<customers, products, orders>>

\* lines 110-118, 127-128: the loop reaches the next row of the list (the row
\* is drawn when the loop reaches it) and checks it
BulkRow(r, cust) ==
    /\ pc[r] = "bulk_loop"
    /\ input' = [input EXCEPT ![r] = Append(@, cust)]
    /\ IF ValidateRow(r, cust) # "ok"
       THEN /\ locals' = [locals EXCEPT ![r].errors =
                   Append(@, RowMessage(Len(input[r]) + 1, ValidateRow(r, cust)))]
            /\ pc' = pc
       ELSE /\ locals' = locals
            /\ pc' = [pc EXCEPT ![r] = "bulk_create"]
    /\ UNCHANGED <<customers, products, orders, tx, op, result>>

\* lines 120-126: Customer.objects.create inside the transaction
BulkInsert(r) ==
    /\ pc[r] = "bulk_create"
    /\ LET cust == input[r][Len(input[r])]
       IN  /\ ~UniqueViolation(cust.email)
           /\ ~HeldByOther(r, cust.email)
           /\ tx' = [tx EXCEPT ![r] = Append(@, cust)]
           /\ locals' = [locals EXCEPT ![r].created_customers = Append(@, cust)]
    /\ pc' = [pc EXCEPT ![r] = "bulk_loop"]
    /\ UNCHANGED <<customers, products, orders, op, input, result>>

\* lines 109, 121, 127: Customer.objects.create raises a database error; the
\* handler of line 127 catches ValidationError only, so the error leaves the
\* with block and transaction.atomic rolls the whole batch back
BulkInsertFails(r) ==
    /\ pc[r] = "bulk_create"
    /\ LET cust == input[r][Len(input[r])]
       IN  \/ /\ UniqueViolation(cust.email)
              /\ Raise(r, "IntegrityError")
           \/ /\ ~UniqueViolation(cust.email)
              /\ Deadlocked(r, cust.email)
              /\ Raise(r, "OperationalError")
    /\ tx' = [tx EXCEPT ![r] = <<>>]
    /\ UNCHANGED <<customers, products, orders, op, input, locals>>

\* lines 109, 130: the list is exhausted, the transaction commits and the
\* mutation returns both lists
BulkReturn(r) ==
    /\ pc[r] = "bulk_loop"
    /\ customers' = customers \o tx[r]
    /\ tx' = [tx EXCEPT ![r] = <<>>]
    /\ pc' = [pc EXCEPT ![r] = "done"]
    /\ result' = [result EXCEPT ![r] =
           [status |-> "ok", customers |-> locals[r].created_customers,
            errors |-> locals[r].errors]]
    /\ UNCHANGED <<products, orders, op, input, locals>>

----------------------------------------------------------------------------
(* createProduct *)

\* line 142: the texts Decimal(input.price) parses, and their values in cents
DecimalParses(text) == text \in {"10.00", "5.50", "0", "-1.00"}

Decimal(text) ==
    CASE text = "10.00" -> 1000
      [] text = "5.50" -> 550
      [] text = "0" -> 0
      [] text = "-1.00" -> -100

\* lines 140-156: the whole mutation, which makes one INSERT
CreateProduct(r, product) ==
    /\ Idle(r)
    /\ op' = [op EXCEPT ![r] = "createProduct"]
    /\ input' = [input EXCEPT ![r] = product]
    /\ locals' = [locals EXCEPT ![r] = [none |-> TRUE]]
    /\ IF ~DecimalParses(product.price)
       THEN Raise(r, "Invalid decimal format for price") /\ products' = products
       ELSE IF Decimal(product.price) <= 0
       THEN Raise(r, "Price must be positive") /\ products' = products
       ELSE IF product.stock < 0
       THEN Raise(r, "Stock cannot be negative") /\ products' = products
       ELSE /\ products' = Append(products,
                   [name |-> product.name, price |-> Decimal(product.price),
                    stock |-> product.stock])
            /\ pc' = [pc EXCEPT ![r] = "done"]
            /\ result' = [result EXCEPT ![r] =
                   [status |-> "ok", product |-> Len(products) + 1,
                    message |-> "Product created successfully"]]
    /\ UNCHANGED <<customers, orders, tx>>

\* a write of Product.price through the ORM (models.py declares the column and
\* nothing that runs when it is written)
UpdatePrice(p, price) ==
    /\ p \in DOMAIN products
    /\ products[p].price # price
    /\ products' = [products EXCEPT ![p].price = price]
    /\ UNCHANGED <<customers, orders, tx, pc, op, input, locals, result>>

----------------------------------------------------------------------------
(* createOrder *)

\* the ids of a set in ascending order
RECURSIVE Ascending(_)
Ascending(S) ==
    IF S = {} THEN <<>>
    ELSE LET least == CHOOSE x \in S : \A y \in S : x <= y
         IN  <<least>> \o Ascending(S \ {least})

\* line 172: list(Product.objects.filter(id__in=input.product_ids)), each product
\* with the price the query read
filter_products(ids) ==
    LET found == Ascending(Range(ids) \cap DOMAIN products)
    IN  [i \in DOMAIN found |-> [id |-> found[i], price |-> products[found[i]].price]]

\* lines 173-177 without the comparison of the two lengths
CheckProductsAnyFound(found, ids) ==
    IF found = <<>> THEN "Order must include at least one product" ELSE "ok"

\* lines 173-177 without the check of line 176
CheckProductsNoEmptyCheck(found, ids) ==
    IF Len(found) # Len(ids) THEN "Some product IDs are invalid" ELSE "ok"

\* lines 173-177: the two checks on the products found, in their order
CheckProducts(found, ids) ==
    IF Len(found) # Len(ids) THEN "Some product IDs are invalid"
    ELSE IF found = <<>> THEN "Order must include at least one product"
    ELSE "ok"

\* the price of the first product only
FirstPrice(found) == IF found = <<>> THEN 0 ELSE found[1].price

\* line 179: sum(p.price for p in products)
RECURSIVE sum_prices(_)
sum_prices(found) ==
    IF found = <<>> THEN 0 ELSE found[1].price + sum_prices(Tail(found))

\* lines 166-170: the request arrives and Customer.objects.get runs
CreateOrderGetCustomer(r, order) ==
    /\ Idle(r)
    /\ op' = [op EXCEPT ![r] = "createOrder"]
    /\ input' = [input EXCEPT ![r] = order]
    /\ IF order.customer_id \in DOMAIN customers
       THEN /\ locals' = [locals EXCEPT ![r] = [customer |-> order.customer_id]]
            /\ pc' = [pc EXCEPT ![r] = "co_filter"]
            /\ result' = [result EXCEPT ![r] = [status |-> "none"]]
       ELSE /\ locals' = [locals EXCEPT ![r] = [none |-> TRUE]]
            /\ Raise(r, "Invalid customer ID")
    /\ UNCHANGED <<customers, products, orders, tx>>

\* lines 172-179: the products are read, checked and their prices added up
CreateOrderFilter(r) ==
    /\ pc[r] = "co_filter"
    /\ LET found == filter_products(input[r].product_ids)
       IN  IF CheckProducts(found, input[r].product_ids) # "ok"
           THEN /\ Raise(r, CheckProducts(found, input[r].product_ids))
                /\ locals' = locals
           ELSE /\ locals' = [locals EXCEPT ![r] =
                       [customer |-> locals[r].customer, products |-> found,
                        total_amount |-> sum_prices(found)]]
                /\ pc' = [pc EXCEPT ![r] = "co_create"]
                /\ result' = result
    /\ UNCHANGED <<customers, products, orders, tx, op, input>>

\* lines 180-184: Order.objects.create, an order row with no product link yet
CreateOrderInsert(r) ==
    /\ pc[r] = "co_create"
    /\ orders' = Append(orders,
           [customer |-> locals[r].customer,
            total_amount |-> locals[r].total_amount, products |-> {}])
    /\ locals' = [locals EXCEPT ![r] =
           [customer |-> locals[r].customer, products |-> locals[r].products,
            total_amount |-> locals[r].total_amount, order |-> Len(orders) + 1]]
    /\ pc' = [pc EXCEPT ![r] = "co_set"]
    /\ UNCHANGED <<customers, products, tx, op, input, result>>

\* lines 185-187: order.products.set(products) and the return of the order
\* object made at line 180
CreateOrderSet(r) ==
    /\ pc[r] = "co_set"
    /\ orders' = [orders EXCEPT ![locals[r].order].products =
           {locals[r].products[i].id : i \in DOMAIN locals[r].products}]
    /\ pc' = [pc EXCEPT ![r] = "done"]
    /\ result' = [result EXCEPT ![r] =
           [status |-> "ok",
            order |-> [id |-> locals[r].order, total_amount |-> locals[r].total_amount],
            message |-> "Order created successfully"]]
    /\ UNCHANGED <<customers, products, tx, op, input, locals>>

----------------------------------------------------------------------------
(* Order.calculate_total *)

\* the sum of the prices of every product of the store
SumAllProducts(order) ==
    sum_prices(filter_products(Ascending(DOMAIN products)))

\* models.py line 29: sum(product.price for product in self.products.all())
LinkedTotal(order) ==
    sum_prices(filter_products(Ascending(orders[order].products)))

\* models.py lines 27-32: the total is computed, stored and returned
CalculateTotal(r, order) ==
    /\ Idle(r)
    /\ order \in DOMAIN orders
    /\ op' = [op EXCEPT ![r] = "calculate_total"]
    /\ input' = [input EXCEPT ![r] = order]
    /\ locals' = [locals EXCEPT ![r] = [total |-> LinkedTotal(order)]]
    /\ orders' = [orders EXCEPT ![order].total_amount = LinkedTotal(order)]
    /\ pc' = [pc EXCEPT ![r] = "done"]
    /\ result' = [result EXCEPT ![r] = [status |-> "ok", total |-> LinkedTotal(order)]]
    /\ UNCHANGED <<customers, products, tx>>

----------------------------------------------------------------------------
(* The arguments the requests are called with *)

Emails == {"a@x.com", "b@x.com", "not-an-email"}
PhoneSamples == {NoPhone, Phone(<<"+", "1">>), Phone(<<"a">>)}
PhoneAlphabet == {"+", "-", "1", "a"}
AllPhones == {NoPhone} \cup {Phone(t) : t \in SeqsUpTo(PhoneAlphabet, MaxPhoneLen)}

\* one request at a time
CustomerInputs == [name : {"Ann", "Bob"}, email : Emails, phone : PhoneSamples]
RowInputs == [name : {"Ann"}, email : Emails, phone : PhoneSamples]
PhoneInputs == [name : {"Ann"}, email : {"a@x.com"}, phone : AllPhones]
\* the customer the orders are made for
OrderCustomerInputs == [name : {"Ann"}, email : {"a@x.com"}, phone : {NoPhone}]
ProductInputs ==
    [name : {"Pen"}, price : {"10.00", "5.50", "0", "-1.00", "abc"}, stock : {-1, 0}]
PriceChanges == {700}
CustomerIds == {1, 2}
ProductIds == {1, 2, 3}
OrderInputs == [customer_id : CustomerIds, product_ids : SeqsUpTo(ProductIds, MaxProductIds)]
\* requests that run at the same time
ConcurrentInputs == [name : {"Ann"}, email : Emails, phone : {NoPhone}]

\* the list given to bulkCreateCustomers has rows the loop has not reached
RowsLeft(r, longest) == pc[r] = "bulk_loop" /\ Len(input[r]) < longest

----------------------------------------------------------------------------
Init ==
    /\ customers = <<>>
    /\ products = <<>>
    /\ orders = <<>>
    /\ tx = [r \in Reqs |-> <<>>]
    /\ pc = [r \in Reqs |-> "idle"]
    /\ op = [r \in Reqs |-> "none"]
    /\ input = [r \in Reqs |-> <<>>]
    /\ locals = [r \in Reqs |-> [none |-> TRUE]]
    /\ result = [r \in Reqs |-> [status |-> "none"]]

\* createCustomer and bulkCreateCustomers requests, two at a time, interleaved
\* statement by statement
Next ==
    \E r \in Reqs :
        \/ \E cust \in ConcurrentInputs : CreateCustomerCheck(r, cust)
        \/ CreateCustomerInsert(r)
        \/ CreateCustomerInsertFails(r)
        \/ BulkBegin(r)
        \/ \E cust \in ConcurrentInputs :
               RowsLeft(r, MaxConcurrentBatch) /\ BulkRow(r, cust)
        \/ BulkInsert(r)
        \/ BulkInsertFails(r)
        \/ BulkReturn(r)

Spec == Init /\ [][Next]_vars

\* createCustomer and bulkCreateCustomers requests, one after the other
NextSeq ==
    \/ \E cust \in CustomerInputs : CreateCustomerCheck("r1", cust)
    \/ CreateCustomerInsert("r1")
    \/ BulkBegin("r1")
    \/ \E cust \in RowInputs : RowsLeft("r1", MaxBatch) /\ BulkRow("r1", cust)
    \/ BulkInsert("r1")
    \/ BulkReturn("r1")

SpecSeq == Init /\ [][NextSeq]_vars

\* createCustomer requests, one after the other, over every phone text
NextPhone ==
    \/ \E cust \in PhoneInputs : CreateCustomerCheck("r1", cust)
    \/ CreateCustomerInsert("r1")

SpecPhone == Init /\ [][NextPhone]_vars

\* the mutations one after the other in request r1, and beside them the writes
\* of prices and the calls of calculate_total in request r2
NextOrder ==
    \/ \E cust \in OrderCustomerInputs : CreateCustomerCheck("r1", cust)
    \/ CreateCustomerInsert("r1")
    \/ \E product \in ProductInputs :
           Len(products) < MaxProducts /\ CreateProduct("r1", product)
    \/ \E order \in OrderInputs :
           Len(orders) < MaxOrders /\ CreateOrderGetCustomer("r1", order)
    \/ CreateOrderFilter("r1")
    \/ CreateOrderInsert("r1")
    \/ CreateOrderSet("r1")
    \/ \E p \in ProductIds, price \in PriceChanges : UpdatePrice(p, price)
    \/ \E order \in DOMAIN orders : CalculateTotal("r2", order)

SpecOrder == Init /\ [][NextOrder]_vars

----------------------------------------------------------------------------
(* Properties of the customer mutations *)

PersistedEmails == {customers[i].email : i \in DOMAIN customers}

\* the slot of request r changes in this step
SlotChanged(r) ==
    <<pc[r], op[r], input[r], locals[r], result[r]>>' #
        <<pc[r], op[r], input[r], locals[r], result[r]>>

Returned(r, mutation) == pc[r] = "done" /\ op[r] = mutation /\ result[r].status = "ok"
Failed(r, mutation) == pc[r] = "done" /\ op[r] = mutation /\ result[r].status = "error"

\* C1: in every reachable state, under any interleaving of createCustomer and
\* bulkCreateCustomers requests, no two persisted customers have the same email.
C1_UniqueEmails ==
    \A i, j \in DOMAIN customers :
        i # j => customers[i].email # customers[j].email

\* a batch that repeated an email in two of its rows has returned with one of
\* them created, and a concurrent insert of a held email was refused
C1_Witness ==
    \E r \in Reqs, q \in Reqs :
        /\ Returned(r, "bulkCreateCustomers")
        /\ Len(input[r]) = 2
        /\ input[r][1].email = input[r][2].email
        /\ Len(result[r].customers) = 1
        /\ input[r][1].email \in PersistedEmails
        /\ Failed(q, "createCustomer")
        /\ result[q].message = "IntegrityError"

\* C5: a createCustomer request whose email a persisted customer already holds
\* fails with "Email already exists" whatever its name and phone are, and
\* leaves the persisted customers as they were.
C5_DuplicateEmailRefused ==
    [][\A r \in Reqs :
          (/\ Idle(r)
           /\ SlotChanged(r)
           /\ op'[r] = "createCustomer"
           /\ input'[r].email \in PersistedEmails)
          => (/\ pc'[r] = "done"
              /\ result'[r] = [status |-> "error", message |-> "Email already exists"]
              /\ customers' = customers)]_vars

\* a request with a held email and a phone the phone check refuses has failed
\* as a duplicate
C5_Witness ==
    \E r \in Reqs :
        /\ Failed(r, "createCustomer")
        /\ result[r].message = "Email already exists"
        /\ input[r].email \in PersistedEmails
        /\ PhoneRefused(input[r].phone)

\* the rows of a batch that are accepted and the messages of those that are
\* not, row by row, when the emails in seen are held before row i
RECURSIVE ExpectedCustomers(_, _, _)
ExpectedCustomers(rows, i, seen) ==
    IF i > Len(rows) THEN <<>>
    ELSE IF validate_email(rows[i].email) /\ rows[i].email \notin seen
            /\ ~PhoneRefused(rows[i].phone)
         THEN <<rows[i]>> \o ExpectedCustomers(rows, i + 1, seen \cup {rows[i].email})
         ELSE ExpectedCustomers(rows, i + 1, seen)

RECURSIVE ExpectedErrors(_, _, _)
ExpectedErrors(rows, i, seen) ==
    IF i > Len(rows) THEN <<>>
    ELSE IF ~validate_email(rows[i].email)
         THEN <<"Row " \o ToString(i) \o ": Invalid email format">>
                  \o ExpectedErrors(rows, i + 1, seen)
    ELSE IF rows[i].email \in seen
         THEN <<"Row " \o ToString(i) \o ": Email already exists">>
                  \o ExpectedErrors(rows, i + 1, seen)
    ELSE IF PhoneRefused(rows[i].phone)
         THEN <<"Row " \o ToString(i) \o ": Invalid phone format">>
                  \o ExpectedErrors(rows, i + 1, seen)
    ELSE ExpectedErrors(rows, i + 1, seen \cup {rows[i].email})

\* the emails held when the batch of the returned request r began: the batch's
\* own customers are the last rows of the table
HeldBefore(r) ==
    {customers[i].email : i \in 1 .. (Len(customers) - Len(result[r].customers))}

\* C6: a bulkCreateCustomers request that returns gives every row one outcome:
\* customers is the accepted rows in input order, errors is one message per
\* refused row in input order, tagged "Row <1-based index>: ", and the lengths
\* of the two lists add up to the length of the input.
C6_RowOutcomes ==
    \A r \in Reqs :
        Returned(r, "bulkCreateCustomers") =>
            /\ result[r].customers = ExpectedCustomers(input[r], 1, HeldBefore(r))
            /\ result[r].errors = ExpectedErrors(input[r], 1, HeldBefore(r))
            /\ Len(result[r].customers) + Len(result[r].errors) = Len(input[r])

\* [valid A, duplicate-email B, valid C] has returned [A, C] and the one message
C6_Witness ==
    \E r \in Reqs :
        /\ Returned(r, "bulkCreateCustomers")
        /\ Len(input[r]) = 3
        /\ input[r][1].email = "a@x.com"
        /\ input[r][2].email = "a@x.com"
        /\ input[r][3].email = "b@x.com"
        /\ result[r].customers = <<input[r][1], input[r][3]>>
        /\ result[r].errors = <<"Row 2: Email already exists">>

\* C7: once a bulkCreateCustomers request has ended, every row that passed the
\* checks and was created is a persisted customer, whatever failed on the
\* other rows.
C7_NoRollback ==
    \A r \in Reqs :
        (pc[r] = "done" /\ op[r] = "bulkCreateCustomers") =>
            \A i \in DOMAIN locals[r].created_customers :
                locals[r].created_customers[i].email \in PersistedEmails

\* "+<digits>"
PlusDigits(t) ==
    Len(t) >= 2 /\ t[1] = "+" /\ \A i \in 2 .. Len(t) : t[i] \in Digits

\* "<digits>(-<digits>)*": groups of digits with one hyphen between two groups
DigitGroups(t) ==
    /\ Len(t) >= 1
    /\ \A i \in DOMAIN t : t[i] \in Digits \cup {"-"}
    /\ t[1] # "-" /\ t[Len(t)] # "-"
    /\ \A i \in 1 .. (Len(t) - 1) : ~(t[i] = "-" /\ t[i + 1] = "-")

\* omitted (None, or the empty text a client sends for no phone) or in one of the
\* two forms
PhoneWellFormed(phone) ==
    ~phone.given \/ phone.text = <<>> \/ PlusDigits(phone.text) \/ DigitGroups(phone.text)

\* C8: createCustomer accepts a phone if and only if it is omitted or matches
\* "+<digits>" or "<digits>(-<digits>)*"; with any other phone it fails with
\* the phone's ValidationError and creates no customer.
C8_PhoneGrammar ==
    \A r \in Reqs :
        (pc[r] = "done" /\ op[r] = "createCustomer") =>
            /\ result[r].status = "ok" => PhoneWellFormed(input[r].phone)
            /\ (result[r].status = "error" /\ ~PhoneWellFormed(input[r].phone)
                   /\ input[r].email \notin PersistedEmails)
               => result[r].message =
                      "Invalid phone format. Use +1234567890 or 123-456-7890"

----------------------------------------------------------------------------
(* Properties of the order mutations *)

\* the sum of the prices that the rows of table hold for the products of ids
RECURSIVE PriceSum(_, _)
PriceSum(ids, table) ==
    IF ids = {} THEN 0
    ELSE LET p == CHOOSE x \in ids : TRUE
         IN  table[p].price + PriceSum(ids \ {p}, table)

\* the products of the store that a list of ids names
Resolved(ids) == {p \in DOMAIN products : \E i \in DOMAIN ids : ids[i] = p}

\* C2: when createOrder succeeds, the order is persisted with the exact sum of
\* the prices of the products resolved from productIds, as the request read
\* them, its product links are exactly those products, and the order returned
\* carries that total.
C2_OrderTotal ==
    [][\A r \in Reqs :
          /\ (pc[r] = "co_filter" /\ pc'[r] = "co_create") =>
                 /\ {locals'[r].products[i].id : i \in DOMAIN locals'[r].products}
                        = Resolved(input[r].product_ids)
                 /\ \A i \in DOMAIN locals'[r].products :
                        locals'[r].products[i].price
                            = products[locals'[r].products[i].id].price
                 /\ locals'[r].total_amount
                        = PriceSum(Resolved(input[r].product_ids), products)
          /\ (pc[r] = "co_create" /\ pc'[r] = "co_set") =>
                 /\ Len(orders') = Len(orders) + 1
                 /\ orders'[Len(orders')].total_amount = locals[r].total_amount
                 /\ locals'[r].products = locals[r].products
          /\ (pc[r] = "co_set" /\ pc'[r] = "done") =>
                 /\ result'[r].status = "ok"
                 /\ result'[r].order.total_amount = locals[r].total_amount
                 /\ orders'[result'[r].order.id].products
                        = {locals[r].products[i].id : i \in DOMAIN locals[r].products}
                 /\ orders'[result'[r].order.id].total_amount
                        = orders[result'[r].order.id].total_amount]_vars

\* an order of two products priced 10.00 and 5.50 has been created with 15.50
C2_Witness ==
    \E r \in Reqs :
        /\ Returned(r, "createOrder")
        /\ result[r].order.total_amount = 1550
        /\ orders[result[r].order.id].total_amount = 1550
        /\ orders[result[r].order.id].products = {1, 2}
        /\ {products[1].price, products[2].price} = {1000, 550}

C9_OrderHasProducts ==
    \A o \in DOMAIN orders :
        /\ orders[o].products # {}
        /\ orders[o].customer \in DOMAIN customers

=============================================================================
